---------------------------- MODULE Spec2Model ----------------------------
(***************************************************************************)
(* Model of the patternhubspot scripts:                                    *)
(*   tools/genindex.py      directory tree -> structure.json   (SpecSnap)  *)
(*   bulk/process.py        split_file                         (SpecSplit) *)
(*   bulk/process-index.py  process_files                      (SpecProc)  *)
(*   bulk/rename.py, tools/rename.py   rename walk             (SpecRen)   *)
(* The scripts share no state; each specification drives the variables of  *)
(* one script and leaves the variables of the others alone.                *)
(***************************************************************************)
EXTENDS Integers, Sequences, FiniteSets, TLC

VARIABLES
    \* ---- tools/genindex.py
    fs,         \* the directory tree: path -> "absent" | "file" | "dir" | "locked" | "broken"
    order,      \* the order os.listdir returns the names of a directory in
    stack,      \* the active calls of folder_structure, innermost last
    exc,        \* the exception in flight, or "none"
    structure,  \* __main__'s variable structure (Null until line 17 returns)
    pc,         \* position of __main__
    out,        \* content of ./structure.json, or Absent
    fopen,      \* whether the handle f of line 18 is open
    nwrites,    \* number of json.dump calls of the current run
    run,        \* 1 for the first run of the script, 2 for the run right after it
    out0,       \* content of ./structure.json when the current run started
    pc1,        \* how the first run ended ("none" during the first run)
    fresh,      \* whether ./structure.json was absent before the first run
    \* ---- bulk/process.py
    input,        \* the lines of input_file, as the for loop yields them
    pos,          \* number of lines read so far
    line,         \* the loop variable line
    file_index,   \* split_file's file_index
    output_file,  \* split_file's output_file: None, or the index of the chunk it writes
    chunks,       \* chunks[k]: the content of index{k}.md
    handles,      \* the chunk indices whose file handle is open
    spc,          \* position in split_file
    \* ---- bulk/process-index.py
    pfiles,       \* pfiles[i]: the content of index{i}.md, or Absent
    pnew,         \* pnew[i]: the content of index{i}-n.md, or Absent
    index,        \* process_files' index
    ppc,          \* position in process_files
    pfiles0,      \* pfiles when process_files was called
    \* ---- bulk/rename.py and tools/rename.py
    script,       \* which of the two scripts runs
    root_dir,     \* os.getcwd()
    rdirs,        \* rdirs[d]: the names of the subdirectories of directory d
    rfiles,       \* rfiles[d]: the names of the files in directory d
    walk,         \* os.walk's pending directories, next first
    visited,      \* the directories the loop body has run for
    replaced,     \* whether an os.rename has replaced an existing file
    rpc,          \* position in the script
    rfiles0       \* rfiles when the script started

snapVars == <<fs, order, stack, exc, structure, pc, out, fopen, nwrites, run, out0, pc1, fresh>>
splitVars == <<input, pos, line, file_index, output_file, chunks, handles, spc>>

procVars == <<pfiles, pnew, index, ppc, pfiles0>>
renVars == <<script, root_dir, rdirs, rfiles, walk, visited, replaced, rpc, rfiles0>>

vars == <<snapVars, splitVars, procVars, renVars>>

\* ------------------------------------------------------------------ bounds
MaxDepth == 2
MaxEntries == 3
MaxLines == 3
MaxIndex == 2
MaxChunkLines == 2
MaxDirs == 2
MaxFiles == 2

\* ------------------------------------------------------------------ helpers
Null == [null |-> TRUE]
Absent == [present |-> FALSE, lines |-> <<>>]      \* no such file
File(lines) == [present |-> TRUE, lines |-> lines]  \* a file holding these lines

Last(s) == s[Len(s)]
Front(s) == SubSeq(s, 1, Len(s) - 1)

RECURSIVE SetToSeqs(_)
SetToSeqs(S) ==
    IF S = {} THEN {<<>>}
    ELSE UNION {{<<x>> \o t : t \in SetToSeqs(S \ {x})} : x \in S}


\* ================================================================== tools/genindex.py
\* ---- the filesystem the script runs in
Names == {"a", "b"}
RootPath == <<"r">>                 \* os.path.abspath("."), one segment per component
OutputName == "structure.json"

RECURSIVE PathsBelow(_, _)
PathsBelow(p, d) ==
    IF d = 0 THEN {}
    ELSE UNION {{Append(p, n)} \cup PathsBelow(Append(p, n), d - 1) : n \in Names}

EntryPaths == PathsBelow(RootPath, MaxDepth)
AllPaths == EntryPaths \cup {RootPath}
DirKinds == {"dir", "locked", "broken"}
    \* "dir": listable; "locked": os.listdir raises PermissionError;
    \* "broken": os.listdir raises another OSError

Basename(path) == Last(path)                            \* os.path.basename
Join(path, entry) == Append(path, entry)                \* os.path.join
Parent(path) == Front(path)

KindOf(path) == IF path \in AllPaths THEN fs[path] ELSE
                IF path = Join(RootPath, OutputName) /\ out # Absent THEN "file" ELSE "absent"

IsDirAlways(path) == KindOf(path) # "absent"
IsDir(path) == KindOf(path) \in DirKinds                \* os.path.isdir

\* the names in a directory, in the order os.listdir returns them; the output file
\* of an earlier run is one more entry of the root
ListDir(path) ==
    LET here == SelectSeq(order[path], LAMBDA n : Join(path, n) \in AllPaths /\ fs[Join(path, n)] # "absent")
    IN  IF path = RootPath /\ out # Absent THEN Append(here, OutputName) ELSE here

\* what os.listdir(path) does: "ok", or the exception it raises
ListOutcome(path) ==
    CASE KindOf(path) = "dir" -> "ok"
      [] KindOf(path) = "locked" -> "PermissionError"
      [] KindOf(path) = "broken" -> "OSError"
      [] KindOf(path) = "file" -> "NotADirectoryError"
      [] OTHER -> "FileNotFoundError"

CatchesAll(e) == TRUE
Catches(e) == e = "PermissionError"                     \* except PermissionError

\* ---- json.dump(structure, f, indent=2, ensure_ascii=False), as the lines it writes
RECURSIVE Pad(_)
Pad(n) == IF n = 0 THEN "" ELSE " " \o Pad(n - 1)

RECURSIVE DumpNode(_, _, _)
RECURSIVE DumpList(_, _, _)
DumpNode(node, ind, last) ==
    <<Pad(ind) \o "{">>
    \o <<Pad(ind + 2) \o "\"name\": \"" \o node.name \o "\",">>
    \o (IF node.children = <<>>
        THEN <<Pad(ind + 2) \o "\"children\": []">>
        ELSE <<Pad(ind + 2) \o "\"children\": [">>
             \o DumpList(node.children, ind + 4, 1)
             \o <<Pad(ind + 2) \o "]">>)
    \o <<Pad(ind) \o (IF last THEN "}" ELSE "},")>>
DumpList(children, ind, i) ==
    IF i > Len(children) THEN <<>>
    ELSE DumpNode(children[i], ind, i = Len(children)) \o DumpList(children, ind, i + 1)

JsonDump(node) == DumpNode(node, 0, TRUE)

\* ---- the run
\* the other scripts are not running
IdleSplit ==
    /\ input = <<>> /\ pos = 0 /\ line = "" /\ file_index = 0
    /\ output_file = 0 /\ chunks = <<>> /\ handles = {} /\ spc = "idle"

IdleProc ==
    /\ pfiles = <<>> /\ pnew = <<>> /\ index = 0 /\ ppc = "idle" /\ pfiles0 = <<>>

IdleRen ==
    /\ script = "none" /\ root_dir = "" /\ rdirs = <<>> /\ rfiles = <<>> /\ walk = <<>>
    /\ visited = {} /\ replaced = FALSE /\ rpc = "idle" /\ rfiles0 = <<>>

IdleSnap ==
    /\ fs = <<>> /\ order = <<>> /\ stack = <<>> /\ exc = "none" /\ structure = Null
    /\ pc = "idle" /\ out = Absent /\ fopen = FALSE /\ nwrites = 0 /\ run = 0
    /\ out0 = Absent /\ pc1 = "none" /\ fresh = FALSE

NewFrame(path) ==
    [path |-> path,
     structure |-> [name |-> Basename(path), children |-> <<>>],
     listed |-> FALSE,
     todo |-> <<>>]

Top == stack[Len(stack)]
SetTop(f) == [stack EXCEPT ![Len(stack)] = f]

InitSnap ==
    /\ \E S \in SUBSET EntryPaths :
         /\ Cardinality(S) <= MaxEntries
         /\ \A p \in S : Parent(p) = RootPath \/ Parent(p) \in S
         /\ \E k \in [S -> {"file"} \cup DirKinds], rk \in DirKinds :
              /\ \A p \in S : Parent(p) # RootPath => k[Parent(p)] \in DirKinds
              /\ fs = [p \in AllPaths |-> IF p = RootPath THEN rk
                                          ELSE IF p \in S THEN k[p] ELSE "absent"]
    /\ LET multi == {p \in AllPaths : Cardinality({n \in Names : Join(p, n) \in AllPaths
                                                     /\ fs[Join(p, n)] # "absent"}) > 1}
           canon == CHOOSE s \in SetToSeqs(Names) : TRUE
       IN  \E o \in [multi -> SetToSeqs(Names)] :
              order = [p \in AllPaths |-> IF p \in multi THEN o[p] ELSE canon]
    /\ out \in {Absent, File(<<"stale">>)}
    /\ out0 = out
    /\ fresh = (out = Absent)
    /\ stack = <<>>
    /\ exc = "none"
    /\ structure = Null
    /\ pc = "start"
    /\ fopen = FALSE
    /\ nwrites = 0
    /\ run = 1
    /\ pc1 = "none"
    /\ IdleSplit /\ IdleProc /\ IdleRen

snapRun == <<fs, order, run, out0, pc1, fresh, splitVars, procVars, renVars>>

\* line 17: folder_structure(os.path.abspath(root_dir)) is called; line 5 builds its node
CallRoot ==
    /\ pc = "start"
    /\ stack' = <<NewFrame(RootPath)>>
    /\ pc' = "walk"
    /\ UNCHANGED <<exc, structure, out, fopen, nwrites, snapRun>>

\* line 7: os.listdir(path) returns the entries
ListDirOk ==
    /\ pc = "walk" /\ exc = "none" /\ stack # <<>>
    /\ ~Top.listed
    /\ ListOutcome(Top.path) = "ok"
    /\ stack' = SetTop([Top EXCEPT !.listed = TRUE, !.todo = ListDir(Top.path)])
    /\ UNCHANGED <<exc, structure, pc, out, fopen, nwrites, snapRun>>

\* line 7: os.listdir(path) raises
ListDirRaises ==
    /\ pc = "walk" /\ exc = "none" /\ stack # <<>>
    /\ ~Top.listed
    /\ ListOutcome(Top.path) # "ok"
    /\ exc' = ListOutcome(Top.path)
    /\ UNCHANGED <<stack, structure, pc, out, fopen, nwrites, snapRun>>

\* (variant of CatchPermissionError: os.listdir called before the try, so the
\* exception is caught one call up, whose loop then ends)
CatchInCaller ==
    /\ pc = "walk" /\ exc # "none" /\ stack # <<>>
    /\ Catches(exc)
    /\ IF Len(stack) = 1
       THEN /\ stack' = <<>>
            /\ pc' = "raised"
            /\ UNCHANGED exc
       ELSE /\ stack' = [Front(stack) EXCEPT ![Len(stack) - 1].todo = <<>>]
            /\ exc' = "none"
            /\ UNCHANGED pc
    /\ UNCHANGED <<structure, out, fopen, nwrites, snapRun>>

\* lines 11-13: the frame's except clause takes the exception; the loop is over
CatchPermissionError ==
    /\ pc = "walk" /\ exc # "none" /\ stack # <<>>
    /\ Catches(exc)
    /\ exc' = "none"
    /\ stack' = SetTop([Top EXCEPT !.listed = TRUE, !.todo = <<>>])
    /\ UNCHANGED <<structure, pc, out, fopen, nwrites, snapRun>>

\* the exception leaves the frame: to the caller's line 10, or out of __main__
Propagate ==
    /\ pc = "walk" /\ exc # "none" /\ stack # <<>>
    /\ ~Catches(exc)
    /\ stack' = Front(stack)
    /\ pc' = IF Len(stack) = 1 THEN "raised" ELSE pc
    /\ UNCHANGED <<exc, structure, out, fopen, nwrites, snapRun>>

\* lines 8-10: the next entry is a directory: the recursive call
EnterSubdir ==
    /\ pc = "walk" /\ exc = "none" /\ stack # <<>>
    /\ Top.listed /\ Top.todo # <<>>
    /\ LET full_path == Join(Top.path, Head(Top.todo))
       IN  /\ IsDir(full_path)
           /\ stack' = Append(SetTop([Top EXCEPT !.todo = Tail(@)]), NewFrame(full_path))
    /\ UNCHANGED <<exc, structure, pc, out, fopen, nwrites, snapRun>>

\* lines 8-9: the next entry is no directory
SkipEntry ==
    /\ pc = "walk" /\ exc = "none" /\ stack # <<>>
    /\ Top.listed /\ Top.todo # <<>>
    /\ ~IsDir(Join(Top.path, Head(Top.todo)))
    /\ stack' = SetTop([Top EXCEPT !.todo = Tail(@)])
    /\ UNCHANGED <<exc, structure, pc, out, fopen, nwrites, snapRun>>

\* (variant of Return: the caller assigns the child list instead of appending)
ReturnAssigns ==
    /\ pc = "walk" /\ exc = "none" /\ stack # <<>>
    /\ Top.listed /\ Top.todo = <<>>
    /\ IF Len(stack) = 1
       THEN /\ structure' = Top.structure
            /\ stack' = <<>>
            /\ pc' = "built"
       ELSE /\ stack' = [Front(stack) EXCEPT ![Len(stack) - 1].structure.children =
                                                 <<Top.structure>>]
            /\ UNCHANGED <<structure, pc>>
    /\ UNCHANGED <<exc, out, fopen, nwrites, snapRun>>

\* line 13, and the caller's append of line 10 (or the assignment of line 17)
Return ==
    /\ pc = "walk" /\ exc = "none" /\ stack # <<>>
    /\ Top.listed /\ Top.todo = <<>>
    /\ IF Len(stack) = 1
       THEN /\ structure' = Top.structure
            /\ stack' = <<>>
            /\ pc' = "built"
       ELSE /\ stack' = [Front(stack) EXCEPT ![Len(stack) - 1].structure.children =
                                                 Append(@, Top.structure)]
            /\ UNCHANGED <<structure, pc>>
    /\ UNCHANGED <<exc, out, fopen, nwrites, snapRun>>

\* (variant of OpenOutput: the file is opened before the tree is built)
OpenOutputEarly ==
    /\ pc = "start"
    /\ out' = File(<<>>)
    /\ fopen' = TRUE
    /\ stack' = <<NewFrame(RootPath)>>
    /\ pc' = "walk"
    /\ UNCHANGED <<exc, structure, nwrites, snapRun>>

\* (variant of OpenOutput: mode "a" instead of "w")
OpenOutputAppend ==
    /\ pc = "built"
    /\ out' = File(out.lines)
    /\ fopen' = TRUE
    /\ pc' = "opened"
    /\ UNCHANGED <<stack, exc, structure, nwrites, snapRun>>

\* line 18: open("structure.json", "w") creates or truncates the file
OpenOutput ==
    /\ pc = "built"
    /\ out' = File(<<>>)
    /\ fopen' = TRUE
    /\ pc' = "opened"
    /\ UNCHANGED <<stack, exc, structure, nwrites, snapRun>>

\* line 19, and the end of the with block
DumpAndClose ==
    /\ pc = "opened"
    /\ out' = File(out.lines \o JsonDump(structure))
    /\ nwrites' = nwrites + 1
    /\ fopen' = FALSE
    /\ pc' = "done"
    /\ UNCHANGED <<stack, exc, structure, snapRun>>

\* the script is started again in the same directory
Rerun ==
    /\ run = 1
    /\ pc \in {"done", "raised"}
    /\ run' = 2
    /\ pc1' = pc
    /\ out0' = out
    /\ pc' = "start"
    /\ stack' = <<>>
    /\ exc' = "none"
    /\ structure' = Null
    /\ nwrites' = 0
    /\ UNCHANGED <<fs, order, out, fopen, fresh, splitVars, procVars, renVars>>

NextSnap ==
    \/ CallRoot
    \/ ListDirOk
    \/ ListDirRaises
    \/ CatchPermissionError
    \/ Propagate
    \/ EnterSubdir
    \/ SkipEntry
    \/ Return
    \/ OpenOutput
    \/ DumpAndClose
    \/ Rerun

SpecSnap == InitSnap /\ [][NextSnap]_vars


\* ------------------------------------------------------------------ genindex: claims
Built == pc \in {"built", "opened", "done"}

\* every node of a tree, with the path it stands for
RECURSIVE NodesOf(_, _)
NodesOf(node, path) ==
    {<<path, node>>} \cup
    UNION {NodesOf(node.children[i], Join(path, node.children[i].name)) :
             i \in 1..Len(node.children)}

\* the entry at this path is a directory of the tree
Directory(path) == KindOf(path) \in DirKinds

SubdirNames(path) == {n \in Names : Directory(Join(path, n))}
ChildNames(node) == {node.children[i].name : i \in 1..Len(node.children)}

\* one child per immediate subdirectory: none missing, none extra, none twice
MirrorsAt(node, path) ==
    /\ node.name = Basename(path)
    /\ ChildNames(node) = SubdirNames(path)
    /\ Len(node.children) = Cardinality(SubdirNames(path))

NoFiles == (\A p \in EntryPaths : fs[p] # "file") /\ ~out0.present
AllListable == \A p \in AllPaths : fs[p] \in {"absent", "dir"}

\* every directory above p can be listed, so the walk gets to p
Visible(p) == \A i \in 1..(Len(p) - 1) : fs[SubSeq(p, 1, i)] = "dir"
ReachableBroken == \E p \in AllPaths : fs[p] = "broken" /\ Visible(p)

\* C1: on a tree of listable directories and no files, the returned tree mirrors the
\* filesystem: the root node is named after the root path, every directory has a
\* node, and every node has exactly one child per immediate subdirectory.
C1_MirrorsTree ==
    (Built /\ NoFiles /\ AllListable) =>
        /\ structure.name = Basename(RootPath)
        /\ \A pn \in NodesOf(structure, RootPath) : MirrorsAt(pn[2], pn[1])
        /\ {pn[1] : pn \in NodesOf(structure, RootPath)} = {p \in AllPaths : Directory(p)}
        /\ Cardinality(NodesOf(structure, RootPath)) = Cardinality({p \in AllPaths : Directory(p)})

C1_Witness ==
    /\ pc = "built" /\ NoFiles /\ AllListable
    /\ Len(structure.children) = 2
    /\ \E i \in 1..2 : structure.children[i].children # <<>>

\* the subtree below a node is complete, up to directories that cannot be listed
FullSubtree(node, path) ==
    \A pn \in NodesOf(node, path) :
        IF fs[pn[1]] = "dir" THEN MirrorsAt(pn[2], pn[1]) ELSE pn[2].children = <<>>

SiblingDirs(d) == {s \in AllPaths : s # d /\ Len(s) = Len(d) /\ Parent(s) = Parent(d) /\ Directory(s)}

\* C2: a directory whose listing raises PermissionError gets a node with no
\* children, the run is not aborted, and its sibling directories are in the
\* parent's children with their full subtrees.
C2_LockedDirIsEmptyNode ==
    /\ ~ReachableBroken => pc # "raised"
    /\ Built =>
         \A d \in AllPaths : (fs[d] = "locked" /\ Visible(d)) =>
            /\ <<d, [name |-> Basename(d), children |-> <<>>]>> \in NodesOf(structure, RootPath)
            /\ \A s \in SiblingDirs(d) :
                  \E pn \in NodesOf(structure, RootPath) :
                      pn[1] = s /\ FullSubtree(pn[2], s)

C2_Witness ==
    /\ pc = "built"
    /\ \E d \in EntryPaths :
         /\ fs[d] = "locked" /\ Len(d) = 2
         /\ Len(structure.children) = 2
         /\ structure.children[1].name = Basename(d)
         /\ structure.children[2].children # <<>>

\* C3: an error of os.listdir other than PermissionError ends the run with every
\* call unwound and structure.json not opened, not written and as it was.
C3_OtherErrorAbortsWithoutOutput ==
    /\ ReachableBroken => ~Built
    /\ pc = "raised" =>
         /\ stack = <<>>
         /\ exc \notin {"none", "PermissionError"}
         /\ out = out0
         /\ ~fopen
         /\ nwrites = 0

C3_Witness ==
    /\ pc = "raised"
    /\ run = 1
    /\ out = File(<<"stale">>)
    /\ \E p \in EntryPaths : fs[p] = "broken" /\ Visible(p) /\ Len(p) = 3

\* C4: every node, finished or under construction, stands for a directory; a
\* directory without subdirectories has the empty sequence as children.
NodesAreDirs(node, path) ==
    \A pn \in NodesOf(node, path) :
        /\ Directory(pn[1])
        /\ DOMAIN pn[2].children = 1..Len(pn[2].children)
        /\ SubdirNames(pn[1]) = {} => pn[2].children = <<>>

C4_OnlyDirectoriesInOutput ==
    /\ \A i \in 1..Len(stack) : NodesAreDirs(stack[i].structure, stack[i].path)
    /\ Built => NodesAreDirs(structure, RootPath)

C4_Witness ==
    /\ pc = "built"
    /\ \E d \in EntryPaths :
         /\ fs[d] = "dir"
         /\ \E n \in Names : KindOf(Join(d, n)) = "file"
         /\ <<d, [name |-> Basename(d), children |-> <<>>]>> \in NodesOf(structure, RootPath)
    /\ \E p \in EntryPaths : Len(p) = 2 /\ fs[p] = "file"

\* C5: the second of two runs on an unchanged tree ends as the first did and
\* leaves structure.json with the content the first run gave it.
C5_SecondRunSameOutput ==
    (run = 2 /\ pc \in {"done", "raised"}) => (pc = pc1 /\ out = out0)

C5_Witness ==
    /\ run = 2 /\ pc = "done" /\ fresh
    /\ structure.children # <<>>
    /\ Len(out.lines) > 4

\* C6: no step changes the tree; structure.json changes only after the whole tree
\* has been built, and a completed run has written it once.
C6_OnlyOutputWritten ==
    [][/\ fs' = fs
       /\ out' # out => (stack = <<>> /\ structure # Null /\ exc = "none"
                         /\ pc \in {"built", "opened"})
       /\ pc' = "done" => (nwrites' = 1 /\ out' = File(JsonDump(structure')))]_vars

C6_Witness ==
    /\ pc = "done" /\ nwrites = 1 /\ run = 1
    /\ ~fresh
    /\ structure.children # <<>>
    /\ out # out0


\* ================================================================== bulk/process.py
StartsWith(s, prefix) ==                                \* str.startswith
    Len(s) >= Len(prefix) /\ SubSeq(s, 1, Len(prefix)) = prefix

\* the lines an input file is made of
SplitLines == {"# A", "# ", "#B", " # C", "text"}

RECURSIVE SeqsUpTo(_, _)
SeqsUpTo(S, n) ==
    IF n = 0 THEN {<<>>}
    ELSE LET shorter == SeqsUpTo(S, n - 1)
         IN  shorter \cup {Append(t, x) : t \in shorter, x \in S}

None == 0                                               \* output_file = None

IsHeadingHash(l) == StartsWith(l, "#")
IsHeading(l) == StartsWith(l, "# ")                     \* line 8

InitSplit ==
    /\ input \in SeqsUpTo(SplitLines, MaxLines)
    /\ pos = 0
    /\ line = ""
    /\ file_index = 1
    /\ output_file = None
    /\ chunks = <<>>
    /\ handles = {}
    /\ spc = "read"
    /\ IdleSnap /\ IdleProc /\ IdleRen

splitIO == <<input, snapVars, procVars, renVars>>

\* line 6: the loop takes the next line
ReadLine ==
    /\ spc = "read"
    /\ pos < Len(input)
    /\ line' = input[pos + 1]
    /\ pos' = pos + 1
    /\ spc' = IF IsHeading(input[pos + 1]) THEN "heading" ELSE "write"
    /\ UNCHANGED <<file_index, output_file, chunks, handles, splitIO>>

\* line 6: reading raises (an OSError, a UnicodeDecodeError); the with block closes infile
ReadRaises ==
    /\ spc = "read"
    /\ pos < Len(input)
    /\ spc' = "raised"
    /\ UNCHANGED <<pos, line, file_index, output_file, chunks, handles, splitIO>>

\* line 6: the input is exhausted
EndOfInput ==
    /\ spc = "read"
    /\ pos = Len(input)
    /\ spc' = "final"
    /\ UNCHANGED <<pos, line, file_index, output_file, chunks, handles, splitIO>>

\* lines 9-10: the current chunk is closed
CloseCurrent ==
    /\ spc = "heading"
    /\ handles' = IF output_file # None THEN handles \ {output_file} ELSE handles
    /\ spc' = "open"
    /\ UNCHANGED <<pos, line, file_index, output_file, chunks, splitIO>>

\* lines 11-13: the next chunk is created
OpenChunk ==
    /\ spc = "open"
    /\ chunks' = [k \in 1..file_index |-> IF k = file_index THEN <<>> ELSE chunks[k]]
    /\ output_file' = file_index
    /\ handles' = handles \cup {file_index}
    /\ file_index' = file_index + 1
    /\ spc' = "write"
    /\ UNCHANGED <<pos, line, splitIO>>

\* line 12: open raises
OpenRaises ==
    /\ spc = "open"
    /\ spc' = "raised"
    /\ UNCHANGED <<pos, line, file_index, output_file, chunks, handles, splitIO>>

\* lines 15-16: the line goes to the current chunk, if there is one
WriteLine ==
    /\ spc = "write"
    /\ IF output_file # None
       THEN chunks' = [chunks EXCEPT ![output_file] = Append(@, line)]
       ELSE UNCHANGED chunks
    /\ spc' = "read"
    /\ UNCHANGED <<pos, line, file_index, output_file, handles, splitIO>>

\* line 16: write raises
WriteRaises ==
    /\ spc = "write"
    /\ output_file # None
    /\ spc' = "raised"
    /\ UNCHANGED <<pos, line, file_index, output_file, chunks, handles, splitIO>>

\* lines 18-19
FinalClose ==
    /\ spc = "final"
    /\ handles' = IF output_file # None THEN handles \ {output_file} ELSE handles
    /\ spc' = "done"
    /\ UNCHANGED <<pos, line, file_index, output_file, chunks, splitIO>>

NextSplit ==
    \/ ReadLine
    \/ ReadRaises
    \/ EndOfInput
    \/ CloseCurrent
    \/ OpenChunk
    \/ OpenRaises
    \/ WriteLine
    \/ WriteRaises
    \/ FinalClose

SpecSplit == InitSplit /\ [][NextSplit]_vars

\* ------------------------------------------------------------------ split_file: claims
\* C7: at most one output handle is open at any time, and none is open once
\* split_file has returned or raised.
C7_HandlesClosedOnEveryExit ==
    /\ Cardinality(handles) <= 1
    /\ spc \in {"done", "raised"} => handles = {}

\* positions of the heading lines of the input, in order
HeadingPositions == {i \in 1..Len(input) : StartsWith(input[i], "# ")}
NthHeading(k) ==
    CHOOSE i \in HeadingPositions : Cardinality({j \in HeadingPositions : j < i}) = k - 1
ChunkEnd(k) ==
    IF k = Cardinality(HeadingPositions) THEN Len(input) ELSE NthHeading(k + 1) - 1

RECURSIVE Concat(_, _)
Concat(ss, k) == IF k > Len(ss) THEN <<>> ELSE ss[k] \o Concat(ss, k + 1)

\* C8: a completed split_file has written one file per heading line; file k holds
\* the k-th heading line and the lines up to the next heading; lines before the
\* first heading are in no file; the files together are the input from its
\* first heading on.
C8_PartitionFromFirstHeading ==
    spc = "done" =>
        LET N == Cardinality(HeadingPositions)
        IN  /\ Len(chunks) = N
            /\ file_index = N + 1
            /\ \A k \in 1..N : chunks[k] = SubSeq(input, NthHeading(k), ChunkEnd(k))
            /\ Concat(chunks, 1) =
                 IF N = 0 THEN <<>> ELSE SubSeq(input, NthHeading(1), Len(input))

C8_Witness ==
    /\ spc = "done"
    /\ Len(chunks) = 2
    /\ ~StartsWith(input[1], "# ")
    /\ input[1] = "#B"
    /\ Len(input) = 3


\* ================================================================== bulk/process-index.py
ChunkLines == {"You: hi", "Your turn", "text"}
ChunkContents == {File(c) : c \in SeqsUpTo(ChunkLines, MaxChunkLines)}

Exists(i) == i \in DOMAIN pfiles /\ pfiles[i].present  \* os.path.exists(f"index{i}.md")

IsSentinelYou(l) == StartsWith(l, "You")
IsSentinel(l) == StartsWith(l, "You: ")                \* line 14

\* lines 11-16: the lines read before the break
RECURSIVE ReadUntilSentinel(_, _, _)
ReadUntilSentinel(ls, i, output_lines) ==
    IF i > Len(ls) THEN output_lines
    ELSE IF IsSentinel(ls[i]) THEN output_lines
    ELSE ReadUntilSentinel(ls, i + 1, Append(output_lines, ls[i]))

InitProc ==
    /\ pfiles \in [1..MaxIndex -> {Absent} \cup ChunkContents]
    /\ pfiles0 = pfiles
    /\ pnew = [i \in 1..MaxIndex |-> Absent]
    /\ index = 1
    /\ ppc = "loop"
    /\ IdleSnap /\ IdleSplit /\ IdleRen

procIO == <<pfiles0, snapVars, splitVars, renVars>>

\* lines 6-22: one pass of the loop over an existing index{index}.md
ProcessOne ==
    /\ ppc = "loop"
    /\ Exists(index)
    /\ pnew' = [pnew EXCEPT ![index] = File(ReadUntilSentinel(pfiles[index].lines, 1, <<>>))]
    /\ index' = index + 1
    /\ UNCHANGED <<pfiles, ppc, procIO>>

\* lines 8-9: index{index}.md does not exist
StopAtMissing ==
    /\ ppc = "loop"
    /\ ~Exists(index)
    /\ ppc' = "done"
    /\ UNCHANGED <<pfiles, pnew, index, procIO>>

NextProc ==
    \/ ProcessOne
    \/ StopAtMissing

\* the interpreter keeps running the loop until it breaks
SpecProc == InitProc /\ [][NextProc]_vars /\ WF_vars(NextProc)

\* ------------------------------------------------------------------ process_files: claims
\* the chunks process_files gets to: index 1 up to the first missing one
FirstMissing == CHOOSE i \in 1..(MaxIndex + 1) :
                    /\ (i \in 1..MaxIndex => ~pfiles0[i].present)
                    /\ \A j \in 1..(i - 1) : pfiles0[j].present

NoSentinelIn(ls) == \A k \in 1..Len(ls) : ~StartsWith(ls[k], "You: ")

\* the longest prefix of ls in which no line starts with "You: "
IsLongestCleanPrefix(pre, ls) ==
    /\ Len(pre) <= Len(ls)
    /\ pre = SubSeq(ls, 1, Len(pre))
    /\ NoSentinelIn(pre)
    /\ Len(pre) < Len(ls) => StartsWith(ls[Len(pre) + 1], "You: ")

ProcState ==
    /\ pfiles = pfiles0
    /\ index <= FirstMissing
    /\ \A i \in 1..MaxIndex :
         IF i < index
         THEN pnew[i].present /\ IsLongestCleanPrefix(pnew[i].lines, pfiles0[i].lines)
         ELSE pnew[i] = Absent
    /\ ppc = "done" => index = FirstMissing

\* C9: process_files goes through index1.md, index2.md, ... in order up to the
\* first missing one, writes to index{i}-n.md the lines of index{i}.md before the
\* first line starting with "You: ", leaves index{i}.md as it was, and ends.
C9_TruncatesUpToFirstGap == []ProcState /\ <>(ppc = "done")

C9_Witness ==
    /\ ppc = "done"
    /\ index = 2
    /\ pfiles0[1].lines = <<"Your turn", "You: hi">>
    /\ pnew[1].lines = <<"Your turn">>

\* ================================================================== bulk/rename.py, tools/rename.py
DirNames == {".git", "docs", "index.md"}
FileNames == {"index.md", "a.md", "pic.png"}
Cwds == {"/w", "/my.github"}

PathJoin(a, b) == a \o "/" \o b                         \* os.path.join

Contains(s, sub) ==                                     \* sub in s
    \E i \in 1..(Len(s) - Len(sub) + 1) : SubSeq(s, i, i + Len(sub) - 1) = sub

\* the directories that can be under a root: one or two levels down
DirsUnder(r) ==
    {PathJoin(r, n) : n \in DirNames} \cup {PathJoin(PathJoin(r, n), m) : n, m \in DirNames}
ChildDirs(d, S) == {n \in DirNames : PathJoin(d, n) \in S}

\* tools/rename.py lines 9-14: the path tests that come before the rename
Excluded(old_file) ==
    script = "tools" /\ (Contains(old_file, ".git") \/ Contains(old_file, ".idea")
                         \/ Contains(old_file, ".png"))

InitRen ==
    /\ script \in {"bulk", "tools"}
    /\ root_dir \in Cwds
    /\ \E S \in SUBSET DirsUnder(root_dir) :
         /\ Cardinality(S) <= MaxDirs
         /\ \A n, m \in DirNames :
              PathJoin(PathJoin(root_dir, n), m) \in S => PathJoin(root_dir, n) \in S
         /\ rdirs = [d \in S \cup {root_dir} |-> ChildDirs(d, S)]
    /\ rfiles \in [DOMAIN rdirs -> {F \in SUBSET FileNames : Cardinality(F) <= MaxFiles}]
    /\ \A d \in DOMAIN rdirs : rfiles[d] \cap rdirs[d] = {}
    /\ rfiles0 = rfiles
    /\ walk = <<root_dir>>
    /\ visited = {}
    /\ replaced = FALSE
    /\ rpc = "walk"
    /\ IdleSnap /\ IdleSplit /\ IdleProc

renIO == <<script, root_dir, rdirs, rfiles0, snapVars, splitVars, procVars>>

\* os.walk, top down: the directory is yielded, its subdirectories come next
Advance(subdir) ==
    /\ \E next \in SetToSeqs({PathJoin(subdir, n) : n \in rdirs[subdir]}) :
          walk' = next \o Tail(walk)
    /\ visited' = visited \cup {subdir}

\* the one file of the directory
OnlyFile(subdir) == CHOOSE f \in rfiles[subdir] : TRUE  \* files[0]

\* bulk 13-14, tools 18-20: the directory does not hold exactly one file
SkipDirectory ==
    /\ rpc = "walk" /\ walk # <<>>
    /\ Cardinality(rfiles[Head(walk)]) # 1
    /\ Advance(Head(walk))
    /\ UNCHANGED <<rfiles, replaced, rpc, renIO>>

\* tools 9-14: one file, whose path holds ".git", ".idea" or ".png"
SkipExcluded ==
    /\ rpc = "walk" /\ walk # <<>>
    /\ Cardinality(rfiles[Head(walk)]) = 1
    /\ Excluded(PathJoin(Head(walk), OnlyFile(Head(walk))))
    /\ Advance(Head(walk))
    /\ UNCHANGED <<rfiles, replaced, rpc, renIO>>

\* bulk 10, tools 15: one file, already index.md
KeepIndex ==
    /\ rpc = "walk" /\ walk # <<>>
    /\ Cardinality(rfiles[Head(walk)]) = 1
    /\ ~Excluded(PathJoin(Head(walk), OnlyFile(Head(walk))))
    /\ OnlyFile(Head(walk)) = "index.md"
    /\ Advance(Head(walk))
    /\ UNCHANGED <<rfiles, replaced, rpc, renIO>>

\* bulk 10-12, tools 15-17: os.rename(old_file, new_file)
RenameToIndex ==
    /\ rpc = "walk" /\ walk # <<>>
    /\ Cardinality(rfiles[Head(walk)]) = 1
    /\ ~Excluded(PathJoin(Head(walk), OnlyFile(Head(walk))))
    /\ OnlyFile(Head(walk)) # "index.md"
    /\ "index.md" \notin rdirs[Head(walk)]
    /\ rfiles' = [rfiles EXCEPT ![Head(walk)] = (@ \ {OnlyFile(Head(walk))}) \cup {"index.md"}]
    /\ replaced' = (replaced \/ "index.md" \in rfiles[Head(walk)])
    /\ Advance(Head(walk))
    /\ UNCHANGED <<rpc, renIO>>

\* bulk 12, tools 17: os.rename raises, index.md being a directory; the script ends
RenameRaises ==
    /\ rpc = "walk" /\ walk # <<>>
    /\ Cardinality(rfiles[Head(walk)]) = 1
    /\ ~Excluded(PathJoin(Head(walk), OnlyFile(Head(walk))))
    /\ OnlyFile(Head(walk)) # "index.md"
    /\ "index.md" \in rdirs[Head(walk)]
    /\ visited' = visited \cup {Head(walk)}
    /\ rpc' = "raised"
    /\ UNCHANGED <<rfiles, walk, replaced, renIO>>

\* os.walk is exhausted
WalkDone ==
    /\ rpc = "walk" /\ walk = <<>>
    /\ rpc' = "done"
    /\ UNCHANGED <<rfiles, walk, visited, replaced, renIO>>

NextRen ==
    \/ SkipDirectory
    \/ SkipExcluded
    \/ KeepIndex
    \/ RenameToIndex
    \/ RenameRaises
    \/ WalkDone

SpecRen == InitRen /\ [][NextRen]_vars

\* ------------------------------------------------------------------ rename: claims
\* the file of d is one tools/rename.py leaves alone
PathExcluded(d) ==
    script = "tools" /\ \E f \in rfiles0[d] :
        \/ Contains(PathJoin(d, f), ".git")
        \/ Contains(PathJoin(d, f), ".idea")
        \/ Contains(PathJoin(d, f), ".png")

\* what holds of the directories in every state of a run
RenameSafety ==
    /\ ~replaced
    /\ \A d \in DOMAIN rfiles :
         /\ Cardinality(rfiles[d]) = Cardinality(rfiles0[d])
         /\ Cardinality(rfiles0[d]) # 1 => rfiles[d] = rfiles0[d]
         /\ (Cardinality(rfiles0[d]) = 1 /\ PathExcluded(d)) => rfiles[d] = rfiles0[d]
         /\ rfiles[d] # rfiles0[d] => (d \in visited /\ rfiles[d] = {"index.md"})

\* C10: when a run has ended, every visited directory that held one file has it
\* named index.md (unless tools/rename.py excludes its path), every other
\* directory has its file names unchanged, no directory has gained or lost a
\* file and no file has been replaced.
C10_SingleFilesBecomeIndex ==
    /\ RenameSafety
    /\ rpc \in {"done", "raised"} =>
         \A d \in visited :
            (Cardinality(rfiles0[d]) = 1 /\ ~PathExcluded(d)) => rfiles[d] = {"index.md"}

=============================================================================
